---- MODULE Spec2Model ----
(***************************************************************************)
(* Fee ledger backend (app.py): Student and Payment rows, the admin        *)
(* password, the request handlers, and calculate_pending_fees.             *)
(*                                                                         *)
(* Date strings are kept as the text the program stores: a sequence of     *)
(* character codes ("-" is 45, " " is 32, "0".."9" are 48..57).  Parsing   *)
(* (datetime.strptime) and ordering (ORDER BY paid_till DESC on a String   *)
(* column) work on that text.  An absent or empty string is <<>>.          *)
(***************************************************************************)
EXTENDS Integers, Sequences, FiniteSets, TLC

VARIABLES students, payments, ADMIN_PASSWORD, inflight, resp, viaAdd, calc

storeVars == <<students, payments, ADMIN_PASSWORD, inflight, resp, viaAdd>>
vars == <<students, payments, ADMIN_PASSWORD, inflight, resp, viaAdd, calc>>

(***************************************************************************)
(* Bounds of the model.                                                    *)
(***************************************************************************)
\* calendar years the pure-function inputs range over: 2024 .. 2023+NumYears
NumYears == 2

(***************************************************************************)
(* Text of dates.                                                          *)
(***************************************************************************)
Dash == <<45>>
None == <<>>

IsDigit(c) == c \in 48..57
DigitVal(c) == c - 48
Chr(d) == <<48 + d>>

\* the text a date is normally sent as: YYYY-MM-DD, zero padded
Iso(y, m, d) ==
    Chr(y \div 1000) \o Chr((y \div 100) % 10) \o Chr((y \div 10) % 10) \o Chr(y % 10)
    \o Dash \o Chr(m \div 10) \o Chr(m % 10)
    \o Dash \o Chr(d \div 10) \o Chr(d % 10)

\* the same date with month and day written without padding where possible
Bare(y, m, d) ==
    Chr(y \div 1000) \o Chr((y \div 100) % 10) \o Chr((y \div 10) % 10) \o Chr(y % 10)
    \o Dash \o (IF m < 10 THEN Chr(m) ELSE Chr(m \div 10) \o Chr(m % 10))
    \o Dash \o (IF d < 10 THEN Chr(d) ELSE Chr(d \div 10) \o Chr(d % 10))

(***************************************************************************)
(* datetime: calendar, strptime(s, '%Y-%m-%d'), timedelta(days=1).         *)
(***************************************************************************)
IsLeap(y) == (y % 4 = 0 /\ y % 100 # 0) \/ y % 400 = 0

DaysInMonth(y, m) ==
    IF m = 2 THEN (IF IsLeap(y) THEN 29 ELSE 28)
    ELSE IF m \in {4, 6, 9, 11} THEN 30 ELSE 31

Date(y, m, d) == [year |-> y, month |-> m, day |-> d]

\* length of the text %m matches at position i: 1[0-2] | 0[1-9] | [1-9]
MonthLen(s, i) ==
    IF i + 1 <= Len(s) /\ ( (s[i] = 49 /\ s[i+1] \in 48..50)
                         \/ (s[i] = 48 /\ s[i+1] \in 49..57) ) THEN 2
    ELSE IF i <= Len(s) /\ s[i] \in 49..57 THEN 1
    ELSE 0

\* length of the text %d matches at position i:
\* 3[01] | [12]\d | 0[1-9] | [1-9] | " "[1-9]
DayLen(s, i) ==
    IF i + 1 <= Len(s) /\ ( (s[i] = 51 /\ s[i+1] \in 48..49)
                         \/ (s[i] \in 49..50 /\ IsDigit(s[i+1]))
                         \/ (s[i] = 48 /\ s[i+1] \in 49..57) ) THEN 2
    ELSE IF i <= Len(s) /\ s[i] \in 49..57 THEN 1
    ELSE IF i + 1 <= Len(s) /\ s[i] = 32 /\ s[i+1] \in 49..57 THEN 2
    ELSE 0

\* int() of the n characters at i (a leading blank is skipped)
FieldVal(s, i, n) ==
    IF n = 1 THEN DigitVal(s[i])
    ELSE IF s[i] = 32 THEN DigitVal(s[i+1])
    ELSE 10 * DigitVal(s[i]) + DigitVal(s[i+1])

\* datetime.strptime(s, '%Y-%m-%d'): ok = FALSE stands for ValueError
strptime(s) ==
    LET bad == [ok |-> FALSE, year |-> 0, month |-> 0, day |-> 0]
    IN  IF ~(Len(s) >= 5 /\ (\A k \in 1..4 : IsDigit(s[k])) /\ s[5] = 45) THEN bad
        ELSE
        LET y  == 1000 * DigitVal(s[1]) + 100 * DigitVal(s[2])
                  + 10 * DigitVal(s[3]) + DigitVal(s[4])
            ml == MonthLen(s, 6)
            di == 6 + ml + 1
        IN  IF ml = 0 \/ ~(di - 1 <= Len(s) /\ s[di - 1] = 45) THEN bad
            ELSE
            LET m  == FieldVal(s, 6, ml)
                dl == DayLen(s, di)
            IN  IF dl = 0 \/ di + dl - 1 # Len(s) THEN bad
                ELSE
                LET d == FieldVal(s, di, dl)
                IN  IF y < 1 \/ d > DaysInMonth(y, m) THEN bad
                    ELSE [ok |-> TRUE, year |-> y, month |-> m, day |-> d]

\* dt + timedelta(days=1)
PlusOneDay(dt) ==
    IF dt.day < DaysInMonth(dt.year, dt.month) THEN Date(dt.year, dt.month, dt.day + 1)
    ELSE IF dt.month < 12 THEN Date(dt.year, dt.month + 1, 1)
    ELSE Date(dt.year + 1, 1, 1)

(***************************************************************************)
(* calculate_pending_fees                                                  *)
(***************************************************************************)
\* months_diff of the no-payment branch
months_diff(today, admission_dt) ==
    (today.year - admission_dt.year) * 12 + (today.month - admission_dt.month)

\* the no-payment branch with the day test "today.day <= 1"
no_payment_pending_day_le_1(today, admission_dt) ==
    LET md == months_diff(today, admission_dt)
    IN  IF md = 0 /\ admission_dt.year = today.year /\ admission_dt.month = today.month
        THEN 0
        ELSE IF today.day <= 1 /\ md > 0 THEN md + 1 - 1 ELSE md + 1

\* pending_months when latest_paid_till_str is empty
no_payment_pending(today, admission_dt) ==
    LET md == months_diff(today, admission_dt)
    IN  IF md = 0 /\ admission_dt.year = today.year /\ admission_dt.month = today.month
        THEN 0
        ELSE IF today.day < 1 /\ md > 0 THEN md + 1 - 1 ELSE md + 1

\* start_pending_dt without the roll to the 1st of the next month
start_pending_dt_next_day(paid_till_dt) == PlusOneDay(paid_till_dt)

\* start_pending_dt: the day after paid_till, rolled to the 1st of the next month
start_pending_dt(paid_till_dt) ==
    LET next == PlusOneDay(paid_till_dt)
    IN  IF next.day # 1
        THEN IF paid_till_dt.month = 12
             THEN Date(paid_till_dt.year + 1, 1, 1)
             ELSE Date(paid_till_dt.year, paid_till_dt.month + 1, 1)
        ELSE next

\* pending_months when a payment exists
paid_pending(today, paid_till_dt) ==
    LET start == start_pending_dt(paid_till_dt)
    IN  IF start.year > today.year
           \/ (start.year = today.year /\ start.month > today.month)
        THEN 0
        ELSE LET n == (today.year - start.year) * 12 + (today.month - start.month) + 1
             IN  IF today.day = 1
                    /\ paid_till_dt.month = (today.month - 1) % 12
                    /\ paid_till_dt.year = (IF today.month # 1 THEN today.year
                                            ELSE today.year - 1)
                 THEN n - 1
                 ELSE n

\* calculate_pending_fees with datetime.now() passed in as today;
\* the result is <<pending_months, pending_amount>>
calculate_pending_fees(student_monthly_fee, admission_date_str, latest_paid_till_str, today) ==
    LET pending_months ==
            IF latest_paid_till_str = None
            THEN no_payment_pending(today, strptime(admission_date_str))
            ELSE paid_pending(today, strptime(latest_paid_till_str))
        pending_amount ==
            IF pending_months > 0 THEN student_monthly_fee * pending_months ELSE 0
    IN  <<pending_months, pending_amount>>

(***************************************************************************)
(* Bounds and inputs of the store model.                                   *)
(***************************************************************************)
\* largest Student id / Payment id the store hands out, most add_student
\* requests that are between their two commits
MaxStudentId == 6
MaxPaymentId == 7
MaxInFlight == 1

ADMIN_USERNAME == "admin"

Max(S) == CHOOSE x \in S : \A y \in S : y <= x

\* INTEGER PRIMARY KEY of a new row: one more than the largest id in the table
NextId(rows) == IF rows = {} THEN 1 ELSE Max({r.id : r \in rows}) + 1

\* student ids the requests name: a seeded student, the ids new students get,
\* and one id no student ever has
StudentIdInputs == {1} \cup (6 .. MaxStudentId + 1)

\* paid-till texts the requests carry: absent, not a date, and dates
PaidTillInputs ==
    { None, Iso(2024, 2, 30), Bare(2024, 1, 31), Iso(2024, 10, 31) }

AdmissionInputs == { None, Iso(2024, 13, 1), Iso(2024, 7, 1) }

\* monthly_fee of a request: absent, text float() rejects, or a number
FeeInputs ==
    { [kind |-> "none", val |-> 0], [kind |-> "text", val |-> 0],
      [kind |-> "num", val |-> 1000], [kind |-> "num", val |-> -100] }

NameInputs == { "", "Eve" }
PasswordInputs == { "", "password", "s3cret" }
UsernameInputs == { "admin", "guest" }

\* values datetime.now() takes in the requests
TodayInputs == { Date(2024, 7, 15), Date(2024, 11, 1) }

(***************************************************************************)
(* Student, Payment                                                        *)
(***************************************************************************)
Student(id, name, address, phone, admission_date, monthly_fee) ==
    [ id |-> id, name |-> name, address |-> address, phone |-> phone,
      admission_date |-> admission_date, admission_cancel_date |-> None,
      monthly_fee |-> monthly_fee ]

Payment(id, student_id, paid_till) ==
    [ id |-> id, student_id |-> student_id, paid_till |-> paid_till ]

\* binary (memcmp) order of two texts, as ORDER BY compares a String column
TextLeq(a, b) ==
    \/ a = b
    \/ Len(a) < Len(b) /\ \A j \in 1..Len(a) : a[j] = b[j]
    \/ \E k \in 1..Len(a) :
          /\ k <= Len(b)
          /\ \A j \in 1..(k - 1) : a[j] = b[j]
          /\ a[k] < b[k]

\* payments[0].paid_till of the rows ordered by desc(Payment.paid_till)
first_paid_till(rows) ==
    IF rows = {} THEN None
    ELSE (CHOOSE p \in rows : \A q \in rows : TextLeq(q.paid_till, p.paid_till)).paid_till

\* Student.payments / Payment.query.filter_by(student_id=...) over the rows
rows_of(rows, student_id) == { p \in rows : p.student_id = student_id }
payments_of(student_id) == rows_of(payments, student_id)

\* Student.query.get
HasStudent(student_id) == \E s \in students : s.id = student_id
GetStudent(student_id) == CHOOSE s \in students : s.id = student_id

\* Student.to_dict, read from the Payment rows given
to_dict_in(s, rows, today) ==
    LET latest_paid_till == first_paid_till(rows_of(rows, s.id))
        r == calculate_pending_fees(s.monthly_fee, s.admission_date, latest_paid_till, today)
    IN  [ id |-> s.id, name |-> s.name, address |-> s.address, phone |-> s.phone,
          admission_date |-> s.admission_date,
          admission_cancel_date |-> s.admission_cancel_date,
          monthly_fee |-> s.monthly_fee, paid_till |-> latest_paid_till,
          pending_months |-> r[1], pending_amount |-> r[2] ]

to_dict(s, today) == to_dict_in(s, payments, today)

\* the outcome of the last request: the route, the HTTP status, the JSON body;
\* args keeps the passwords of a change_password request and is <<>> otherwise
Response(op, args, status, body) ==
    [ op |-> op, args |-> args, status |-> status, body |-> body ]

(***************************************************************************)
(* init_db_and_data: the rows a fresh database starts with                 *)
(***************************************************************************)
DummyStudents ==
    { Student(1, "Alice Wonderland", "123 Rabbit Hole", "9876543210", Iso(2023, 1, 10), 1500),
      Student(2, "Bob The Builder", "456 Construction Site", "1234567890", Iso(2023, 3, 1), 1200),
      Student(3, "Charlie Chaplin", "789 Hollywood Blvd", "9988776655", Iso(2024, 1, 5), 2000),
      Student(4, "Diana Prince", "Themyscira", "1122334455", Iso(2024, 5, 20), 1800),
      Student(5, "Bruce Wayne", "Batcave", "6677889900", Iso(2024, 6, 15), 2500) }

DummyPayments ==
    { Payment(1, 1, Iso(2024, 5, 31)), Payment(2, 1, Iso(2024, 6, 30)),
      Payment(3, 2, Iso(2023, 7, 31)),
      Payment(4, 3, Iso(2024, 1, 31)),
      Payment(5, 4, Iso(2024, 5, 31)), Payment(6, 4, Iso(2024, 6, 30)) }

NoCalc == [ done |-> FALSE ]

Init ==
    /\ students = DummyStudents
    /\ payments = DummyPayments
    /\ ADMIN_PASSWORD = "password"
    /\ inflight = {}
    /\ viaAdd = {}
    /\ resp = Response("init_db_and_data", <<>>, 0, <<>>)
    /\ calc = NoCalc

(***************************************************************************)
(* Routes                                                                  *)
(***************************************************************************)
\* the status login_user answers with
login_status(username, password) ==
    IF username = ADMIN_USERNAME /\ password = ADMIN_PASSWORD THEN 200 ELSE 401

login_user(username, password) ==
    /\ resp' = Response("login_user", <<>>, login_status(username, password), <<>>)
    /\ UNCHANGED <<students, payments, ADMIN_PASSWORD, inflight, viaAdd, calc>>

\* the status change_password answers with
change_password_status(old_password, new_password) ==
    IF old_password = "" \/ new_password = "" THEN 400
    ELSE IF old_password # ADMIN_PASSWORD THEN 401
    ELSE IF old_password = new_password THEN 400
    ELSE 200

\* change_password: no branch assigns ADMIN_PASSWORD
change_password(old_password, new_password) ==
    /\ resp' = Response("change_password",
                        [old_password |-> old_password, new_password |-> new_password],
                        change_password_status(old_password, new_password), <<>>)
    /\ UNCHANGED <<students, payments, ADMIN_PASSWORD, inflight, viaAdd, calc>>

get_students(today) ==
    /\ resp' = Response("get_students", <<>>, 200,
                        { to_dict(s, today) : s \in students })
    /\ UNCHANGED <<students, payments, ADMIN_PASSWORD, inflight, viaAdd, calc>>

get_student_payments(student_id, today) ==
    /\ IF ~HasStudent(student_id)
       THEN resp' = Response("get_student_payments", <<>>, 404, <<>>)
       ELSE LET student == GetStudent(student_id)
                rows == payments_of(student_id)
                r == calculate_pending_fees(student.monthly_fee, student.admission_date,
                                            first_paid_till(rows), today)
            IN  resp' = Response("get_student_payments", <<>>, 200,
                                 [ student |-> to_dict(student, today), payments |-> rows,
                                   pending_months |-> r[1], pending_amount |-> r[2] ])
    /\ UNCHANGED <<students, payments, ADMIN_PASSWORD, inflight, viaAdd, calc>>

\* the status add_student answers with before it writes anything; 0 when the
\* request passes validation
add_student_rejects(data) ==
    IF data.name = "" \/ data.admission_date = None \/ data.initial_paid_till = None
       \/ data.monthly_fee.kind = "none" THEN 400
    ELSE IF data.monthly_fee.kind = "text" THEN 400
    ELSE IF ~strptime(data.admission_date).ok THEN 400
    ELSE IF ~strptime(data.initial_paid_till).ok THEN 400
    ELSE 0

\* add_student up to its first commit: the Student row is committed, the
\* request goes on to its seed Payment
add_student(data) ==
    IF add_student_rejects(data) # 0
    THEN /\ resp' = Response("add_student", <<>>, add_student_rejects(data), <<>>)
         /\ UNCHANGED <<students, payments, ADMIN_PASSWORD, inflight, viaAdd, calc>>
    ELSE /\ NextId(students) <= MaxStudentId
         /\ NextId(payments) + Cardinality(inflight) <= MaxPaymentId
         /\ Cardinality(inflight) < MaxInFlight
         /\ LET id == NextId(students)
            IN  /\ students' = students \cup
                       { Student(id, data.name, data.address, data.phone,
                                 data.admission_date, data.monthly_fee.val) }
                /\ inflight' = inflight \cup
                       { [student_id |-> id, initial_paid_till |-> data.initial_paid_till] }
                /\ viaAdd' = viaAdd \cup {id}
                /\ resp' = Response("add_student", <<>>, 0, <<>>)
         /\ UNCHANGED <<payments, ADMIN_PASSWORD, calc>>

\* add_student from its first commit on: the seed Payment is committed and the
\* new student's view returned.  A student deleted in between makes reading
\* new_student.id fail, or, when the id was read before the delete, leaves the
\* Payment row of a student that is gone.
add_student_seed(req, today, id_read_before_delete) ==
    /\ req \in inflight
    /\ inflight' = inflight \ {req}
    /\ IF HasStudent(req.student_id) \/ id_read_before_delete
       THEN LET rows == payments \cup
                    { Payment(NextId(payments), req.student_id, req.initial_paid_till) }
            IN  /\ payments' = rows
                /\ resp' = IF HasStudent(req.student_id)
                           THEN Response("add_student", <<>>, 201,
                                         to_dict_in(GetStudent(req.student_id), rows, today))
                           ELSE Response("add_student", <<>>, 500, <<>>)
       ELSE /\ resp' = Response("add_student", <<>>, 500, <<>>)
            /\ UNCHANGED payments
    /\ UNCHANGED <<students, ADMIN_PASSWORD, viaAdd, calc>>

\* add_student whose second commit raises: the Student row stays, no Payment
add_student_seed_fails(req) ==
    /\ req \in inflight
    /\ inflight' = inflight \ {req}
    /\ resp' = Response("add_student", <<>>, 500, <<>>)
    /\ UNCHANGED <<students, payments, ADMIN_PASSWORD, viaAdd, calc>>

\* the status delete_student answers a password confirmation with; 0 lets it go on
delete_password_status(password) ==
    IF password # ADMIN_PASSWORD THEN 401 ELSE 0

\* delete_student that leaves the Payment rows of the student in place
delete_student_no_cascade(student_id, password) ==
    IF delete_password_status(password) # 0
    THEN /\ resp' = Response("delete_student", <<>>, 401, <<>>)
         /\ UNCHANGED <<students, payments, ADMIN_PASSWORD, inflight, viaAdd, calc>>
    ELSE IF ~HasStudent(student_id)
    THEN /\ resp' = Response("delete_student", <<>>, 404, <<>>)
         /\ UNCHANGED <<students, payments, ADMIN_PASSWORD, inflight, viaAdd, calc>>
    ELSE /\ students' = { s \in students : s.id # student_id }
         /\ viaAdd' = viaAdd \ {student_id}
         /\ resp' = Response("delete_student", <<>>, 200, <<>>)
         /\ UNCHANGED <<payments, ADMIN_PASSWORD, inflight, calc>>

delete_student(student_id, password) ==
    IF delete_password_status(password) # 0
    THEN /\ resp' = Response("delete_student", <<>>, 401, <<>>)
         /\ UNCHANGED <<students, payments, ADMIN_PASSWORD, inflight, viaAdd, calc>>
    ELSE IF ~HasStudent(student_id)
    THEN /\ resp' = Response("delete_student", <<>>, 404, <<>>)
         /\ UNCHANGED <<students, payments, ADMIN_PASSWORD, inflight, viaAdd, calc>>
    ELSE /\ students' = { s \in students : s.id # student_id }
         /\ payments' = payments \ payments_of(student_id)
         /\ viaAdd' = viaAdd \ {student_id}
         /\ resp' = Response("delete_student", <<>>, 200, <<>>)
         /\ UNCHANGED <<ADMIN_PASSWORD, inflight, calc>>

\* update_student_payment that commits the Payment before it checks the date
update_student_payment_checks_late(student_id, paid_till) ==
    IF ~HasStudent(student_id)
    THEN /\ resp' = Response("update_student_payment", <<>>, 404, <<>>)
         /\ UNCHANGED <<students, payments, ADMIN_PASSWORD, inflight, viaAdd, calc>>
    ELSE IF paid_till = None
    THEN /\ resp' = Response("update_student_payment", <<>>, 400, <<>>)
         /\ UNCHANGED <<students, payments, ADMIN_PASSWORD, inflight, viaAdd, calc>>
    ELSE /\ NextId(payments) + Cardinality(inflight) <= MaxPaymentId
         /\ payments' = payments \cup { Payment(NextId(payments), student_id, paid_till) }
         /\ resp' = IF ~strptime(paid_till).ok
                    THEN Response("update_student_payment", <<>>, 400, <<>>)
                    ELSE Response("update_student_payment", <<>>, 200,
                                  Payment(NextId(payments), student_id, paid_till))
         /\ UNCHANGED <<students, ADMIN_PASSWORD, inflight, viaAdd, calc>>

update_student_payment(student_id, paid_till) ==
    IF ~HasStudent(student_id)
    THEN /\ resp' = Response("update_student_payment", <<>>, 404, <<>>)
         /\ UNCHANGED <<students, payments, ADMIN_PASSWORD, inflight, viaAdd, calc>>
    ELSE IF paid_till = None \/ ~strptime(paid_till).ok
    THEN /\ resp' = Response("update_student_payment", <<>>, 400, <<>>)
         /\ UNCHANGED <<students, payments, ADMIN_PASSWORD, inflight, viaAdd, calc>>
    ELSE /\ NextId(payments) + Cardinality(inflight) <= MaxPaymentId
         /\ payments' = payments \cup { Payment(NextId(payments), student_id, paid_till) }
         /\ resp' = Response("update_student_payment", <<>>, 200,
                             Payment(NextId(payments), student_id, paid_till))
         /\ UNCHANGED <<students, ADMIN_PASSWORD, inflight, viaAdd, calc>>

\* add_student requests: a complete one with every paid-till text and fee, and
\* the same with one other field missing or malformed
AddStudentInputs ==
    [ name : {"Eve"}, address : {""}, phone : {""}, admission_date : {Iso(2024, 7, 1)},
      initial_paid_till : PaidTillInputs, monthly_fee : FeeInputs ]
    \cup
    [ name : NameInputs, address : {""}, phone : {""}, admission_date : AdmissionInputs,
      initial_paid_till : {Iso(2024, 10, 31)}, monthly_fee : {[kind |-> "num", val |-> 1000]} ]

Next ==
    \/ \E u \in UsernameInputs, p \in PasswordInputs : login_user(u, p)
    \/ \E o \in PasswordInputs, n \in PasswordInputs : change_password(o, n)
    \/ \E t \in TodayInputs : get_students(t)
    \/ \E i \in StudentIdInputs, t \in TodayInputs : get_student_payments(i, t)
    \/ \E d \in AddStudentInputs : add_student(d)
    \/ \E r \in inflight, t \in TodayInputs, b \in BOOLEAN : add_student_seed(r, t, b)
    \/ \E r \in inflight : add_student_seed_fails(r)
    \/ \E i \in StudentIdInputs, p \in PasswordInputs : delete_student(i, p)
    \/ \E i \in StudentIdInputs, d \in PaidTillInputs : update_student_payment(i, d)

Spec == Init /\ [][Next]_vars

(***************************************************************************)
(* calculate_pending_fees on its own: the inputs are drawn at the start,   *)
(* the one step applies the function.                                     *)
(***************************************************************************)
CalcYears == 2024 .. (2023 + NumYears)

NoDate == Date(0, 0, 0)

\* reference dates: the 1st, the 15th and the last day of every month
CalcTodays ==
    UNION { { Date(y, m, 1), Date(y, m, 15), Date(y, m, DaysInMonth(y, m)) } :
            y \in CalcYears, m \in 1..12 }

\* paid-till dates: the 15th and the last day of every month
CalcPaidTills ==
    UNION { { Date(y, m, 15), Date(y, m, DaysInMonth(y, m)) } :
            y \in CalcYears, m \in 1..12 }

\* admission dates: the 15th of every month
CalcAdmissions == { Date(y, m, 15) : y \in CalcYears, m \in 1..12 }

CalcFees == { 0, 1500 }

CalcInput(fee, adm, paid, today) ==
    [ done |-> FALSE, fee |-> fee,
      adm |-> adm, admission_date |-> Iso(adm.year, adm.month, adm.day),
      paid |-> paid,
      paid_till |-> IF paid = NoDate THEN None ELSE Iso(paid.year, paid.month, paid.day),
      today |-> today, pending_months |-> 0, pending_amount |-> 0 ]

\* without a payment every admission date is tried; with one (the admission
\* date is then not read) the first and the last
CalcInputs ==
    { CalcInput(f, a, NoDate, t) : f \in CalcFees, a \in CalcAdmissions, t \in CalcTodays }
    \cup
    { CalcInput(f, a, p, t) : f \in CalcFees,
                              a \in { Date(2024, 1, 15), Date(2023 + NumYears, 12, 15) },
                              p \in CalcPaidTills, t \in CalcTodays }

InitCalc ==
    /\ students = DummyStudents
    /\ payments = DummyPayments
    /\ ADMIN_PASSWORD = "password"
    /\ inflight = {}
    /\ viaAdd = {}
    /\ resp = Response("init_db_and_data", <<>>, 0, <<>>)
    /\ calc \in CalcInputs

Calculate ==
    /\ ~calc.done
    /\ LET r == calculate_pending_fees(calc.fee, calc.admission_date, calc.paid_till, calc.today)
       IN  calc' = [calc EXCEPT !.done = TRUE, !.pending_months = r[1],
                                !.pending_amount = r[2]]
    /\ UNCHANGED storeVars

NextCalc == Calculate

SpecCalc == InitCalc /\ [][NextCalc]_vars

(***************************************************************************)
(* Properties of calculate_pending_fees (checked under SpecCalc).          *)
(***************************************************************************)
\* (year, month) as a month count
MonthIndex(y, m) == y * 12 + (m - 1)

\* C1: with a payment, a reference date on the 1st of a month and a paid-till
\* date in the month just before the reference month (December of the year
\* before for a reference in January), pending_months is 0.
C1_FirstOfMonthAfterPaidMonth ==
    ( /\ calc.done
      /\ calc.paid # NoDate
      /\ calc.today.day = 1
      /\ MonthIndex(calc.paid.year, calc.paid.month) + 1
            = MonthIndex(calc.today.year, calc.today.month) )
    => calc.pending_months = 0

\* C2: with a payment and a reference date that is not the 1st, start_pending
\* is the month after the paid-till month; pending is 0 (and the amount 0)
\* when that month is after the reference month, else the inclusive month
\* distance; every day of the paid-till month gives the same result.
C2_PendingFromMonthAfterPaidTill ==
    ( calc.done /\ calc.paid # NoDate /\ calc.today.day # 1 )
    => LET start == MonthIndex(calc.paid.year, calc.paid.month) + 1
           ref   == MonthIndex(calc.today.year, calc.today.month)
       IN  /\ start > ref => calc.pending_months = 0 /\ calc.pending_amount = 0
           /\ start <= ref => calc.pending_months = ref - start + 1
           /\ \A d \in 1..DaysInMonth(calc.paid.year, calc.paid.month) :
                 calculate_pending_fees(calc.fee, calc.admission_date,
                                        Iso(calc.paid.year, calc.paid.month, d), calc.today)
                 = <<calc.pending_months, calc.pending_amount>>

\* a mid-month paid-till date, a reference date later in a later month that is
\* not the 1st, and several months pending
C2_Witness ==
    /\ calc.done /\ calc.paid # NoDate
    /\ calc.paid.day = 15 /\ calc.today.day # 1
    /\ calc.pending_months = 12

\* C3: without a payment and with the reference month not before the admission
\* month, pending_months is 0 in the admission month and months_diff + 1
\* after it, whatever the day of the reference date.
C3_NoPaymentPending ==
    ( /\ calc.done
      /\ calc.paid = NoDate
      /\ MonthIndex(calc.adm.year, calc.adm.month)
            <= MonthIndex(calc.today.year, calc.today.month) )
    => LET md == MonthIndex(calc.today.year, calc.today.month)
                 - MonthIndex(calc.adm.year, calc.adm.month)
       IN  calc.pending_months = IF md = 0 THEN 0 ELSE md + 1

\* no payment, the reference date the 1st of the second month after admission
C3_Witness ==
    /\ calc.done /\ calc.paid = NoDate
    /\ calc.today.day = 1
    /\ calc.pending_months = 3

\* C4: pending_months is never negative and pending_amount is
\* monthly_fee * pending_months.
C4_NonNegativeAndProduct ==
    calc.done => /\ calc.pending_months >= 0
                 /\ calc.pending_amount = calc.fee * calc.pending_months

(***************************************************************************)
(* Properties of the store and the routes (checked under Spec).            *)
(***************************************************************************)
\* a date as a number that orders dates by the calendar
DateKey(dt) == dt.year * 10000 + dt.month * 100 + dt.day

WriteRoutes == { "add_student", "update_student_payment", "delete_student" }

\* statuses of the error outcomes: bad or missing input, wrong password,
\* unknown student
ErrorStatuses == { 400, 401, 404 }

\* C5: in every committed state a student created through add_student has at
\* least one Payment.
C5_AddedStudentHasPayment ==
    \A s \in students : s.id \in viaAdd => payments_of(s.id) # {}

\* C6: the paid_till a student's view reports is the latest, by the calendar,
\* of the paid-till dates recorded for that student.
C6_ReportedPaidTillIsLatest ==
    \A s \in students : \A p \in payments_of(s.id) : \A t \in TodayInputs :
        DateKey(strptime(p.paid_till)) <= DateKey(strptime(to_dict(s, t).paid_till))

\* C7: a successful delete_student removes one student and every Payment of
\* that student, and leaves every other Student and Payment as it was.
C7_DeleteRemovesStudentAndPayments ==
    [][ (resp'.op = "delete_student" /\ resp'.status = 200)
        => \E gone \in students :
              /\ \A s \in students' : s.id # gone.id
              /\ \A p \in payments' : p.student_id # gone.id
              /\ \A s \in students : s.id # gone.id => s \in students'
              /\ \A p \in payments : p.student_id # gone.id => p \in payments'
              /\ students' \subseteq students
              /\ payments' \subseteq payments ]_vars

\* a delete has just succeeded, and the seeded student with two payments is
\* gone with both while the other seeded rows are all there
C7_Witness ==
    /\ resp.op = "delete_student" /\ resp.status = 200
    /\ ~HasStudent(1)
    /\ students = { s \in DummyStudents : s.id # 1 }
    /\ payments = { p \in DummyPayments : p.student_id # 1 }

\* C8: a write route that answers with an error outcome leaves the Student
\* and Payment rows exactly as they were.
C8_ErrorLeavesStoreUnchanged ==
    [][ (resp'.op \in WriteRoutes /\ resp'.status \in ErrorStatuses)
        => (students' = students /\ payments' = payments) ]_vars

\* update_student_payment has just refused a request, on a store that
\* earlier requests have changed
C8_Witness ==
    /\ resp.op = "update_student_payment" /\ resp.status = 400
    /\ students # DummyStudents
    /\ payments # DummyPayments

\* C9: every student created through add_student has a non-negative
\* monthly_fee.
C9_AddedStudentFeeNonNegative ==
    \A s \in students : s.id \in viaAdd => s.monthly_fee >= 0

\* C10: once change_password has answered with success, a login with the new
\* password succeeds and one with the old password fails, and delete_student
\* accepts the new password and refuses the old one.
C10_PasswordChangeTakesEffect ==
    (resp.op = "change_password" /\ resp.status = 200)
    => /\ login_status(ADMIN_USERNAME, resp.args.new_password) = 200
       /\ login_status(ADMIN_USERNAME, resp.args.old_password) = 401
       /\ delete_password_status(resp.args.new_password) = 0
       /\ delete_password_status(resp.args.old_password) = 401

====
